---- MODULE Spec2Model ----
(***************************************************************************)
(* A model of the compartmental simulation engine of src/src/main.rs:      *)
(* buckets holding a u64 quantity, the Diffusion and Infection behaviours  *)
(* that move quantity between them, and the loop of Model::run.            *)
(*                                                                         *)
(* The machine arithmetic of the update rules is modelled at its width.    *)
(* A u64 is a sequence of 8 base-256 digits, least significant first, an   *)
(* i32 is an integer in -2^31 .. 2^31-1, and an f32 is a record [m, e]     *)
(* standing for m * 2^e with 2^23 <= m < 2^24 (m = 0 for 0.0).             *)
(***************************************************************************)
EXTENDS Integers, Sequences, FiniteSets, TLC

(***************************************************************************)
(* u64: representation and arithmetic.                                     *)
(***************************************************************************)
Digits == 1..8

U64Zero == <<0, 0, 0, 0, 0, 0, 0, 0>>

U64Max == <<255, 255, 255, 255, 255, 255, 255, 255>>

\* The u64 whose value is the natural number n < 2^31.
FromNat(n) ==
    <<n % 256, (n \div 256) % 256, (n \div 65536) % 256, n \div 16777216, 0, 0, 0, 0>>

\* TRUE iff the u64 x is below 2^31, so that ToNat(x) is its value.
IsSmall(x) == x[4] < 128 /\ \A i \in 5..8 : x[i] = 0

ToNat(x) == x[1] + 256 * x[2] + 65536 * x[3] + 16777216 * x[4]

RECURSIVE PropagateFrom(_, _, _)
\* Carry propagation over column sums: the digits of cols, then the carry out.
PropagateFrom(cols, i, carry) ==
    IF i > Len(cols)
    THEN <<carry>>
    ELSE LET s == cols[i] + carry
         IN  <<s % 256>> \o PropagateFrom(cols, i + 1, s \div 256)

\* x + y in u64: the wrapped sum and whether the exact sum exceeds u64::MAX.
U64Add(x, y) ==
    LET d == PropagateFrom([i \in Digits |-> x[i] + y[i]], 1, 0)
    IN  [val |-> SubSeq(d, 1, 8), overflow |-> d[9] # 0]

\* x - y in u64: the wrapped difference and whether y exceeds x.
\* A subtraction that leaves x as it is.
U64SubNothing(x, y) == [val |-> x, overflow |-> FALSE]

U64Sub(x, y) ==
    LET d == PropagateFrom([i \in Digits |-> x[i] + (255 - y[i])], 1, 1)
    IN  [val |-> SubSeq(d, 1, 8), overflow |-> d[9] = 0]

U64Less(x, y) == U64Sub(x, y).overflow

U64LessEq(x, y) == ~U64Less(y, x)

RECURSIVE MulRows(_, _, _, _)
\* The column sums (1..16) of the schoolbook product of x and y: acc plus the
\* rows of the digits j..8 of y.
MulRows(x, y, j, acc) ==
    IF j > 8 THEN acc
    ELSE IF y[j] = 0 THEN MulRows(x, y, j + 1, acc)
    ELSE MulRows(x, y, j + 1,
                 [k \in 1..16 |-> acc[k] + (IF k + 1 - j \in Digits
                                            THEN x[k + 1 - j] * y[j] ELSE 0)])

\* x * y in u64: the wrapped product and whether the exact product exceeds u64::MAX.
U64Mul(x, y) ==
    LET d == PropagateFrom(MulRows(x, y, 1, [k \in 1..16 |-> 0]), 1, 0)
    IN  [val |-> SubSeq(d, 1, 8), overflow |-> SubSeq(d, 9, 17) # [k \in 1..9 |-> 0]]

\* Bit i (0..63) of a u64.
BitOf(x, i) == (x[(i \div 8) + 1] \div 2^(i % 8)) % 2

RECURSIVE NatBitLen(_)
\* The number of significant bits of a natural number.
NatBitLen(n) == IF n = 0 THEN 0 ELSE 1 + NatBitLen(n \div 2)

RECURSIVE TopDigit(_, _)
\* The highest non-zero digit of x at or below digit i (0 if none).
TopDigit(x, i) == IF i = 0 \/ x[i] # 0 THEN i ELSE TopDigit(x, i - 1)

\* The number of significant bits of a u64 (0 for zero).
BitLen(x) ==
    LET t == TopDigit(x, 8)
    IN  IF t = 0 THEN 0 ELSE 8 * (t - 1) + NatBitLen(x[t])

\* The integer made of the n <= 30 bits of x starting at bit s.
RECURSIVE BitField(_, _, _)
BitField(x, s, n) ==
    IF n = 0 THEN 0
    ELSE (IF s <= 63 THEN BitOf(x, s) ELSE 0) + 2 * BitField(x, s + 1, n - 1)

\* The u64 whose bit i is bit i - s of the natural number m < 2^24 (m * 2^s mod 2^64).
ShiftLeft(m, s) ==
    LET bit(i) == IF i >= s /\ i - s < 24 THEN (m \div 2^(i - s)) % 2 ELSE 0
        digit(d) == bit(8*d)          + 2 * bit(8*d + 1)
                  + 4 * bit(8*d + 2)  + 8 * bit(8*d + 3)
                  + 16 * bit(8*d + 4) + 32 * bit(8*d + 5)
                  + 64 * bit(8*d + 6) + 128 * bit(8*d + 7)
    IN  <<digit(0), digit(1), digit(2), digit(3), digit(4), digit(5), digit(6), digit(7)>>

(***************************************************************************)
(* f32: the values the update rules compute with.                          *)
(***************************************************************************)
F32Zero == [m |-> 0, e |-> 0]

\* The f32 of a natural number n <= 2^24 (exact).
F32FromNat(n) ==
    IF n = 0 THEN F32Zero
    ELSE LET l == NatBitLen(n)
         IN  IF l <= 24 THEN [m |-> n * 2^(24 - l), e |-> l - 24]
                        ELSE [m |-> n \div 2, e |-> 1]

\* Round to nearest, ties to even: the kept bits, the first dropped bit, and
\* whether any later dropped bit is set.
RoundNearestEven(top, roundBit, sticky) ==
    top + (IF roundBit = 1 /\ (sticky \/ top % 2 = 1) THEN 1 ELSE 0)

\* A significand that rounding carried up to 2^24 moves to the next binade.
Renorm(m, e) == IF m = 16777216 THEN [m |-> 8388608, e |-> e + 1]
                ELSE [m |-> m, e |-> e]

RECURSIVE ScaleFor(_, _, _)
\* The least k with num * 2^k >= den * 2^23.
ScaleFor(num, den, k) ==
    IF num * 2^k >= den * 8388608 THEN k ELSE ScaleFor(num, den, k + 1)

\* The f32 nearest to num/den, as the compiler reads a literal such as 0.01
\* (0 <= num <= den <= 100).
F32Literal(num, den) ==
    IF num = 0 THEN F32Zero
    ELSE LET k == ScaleFor(num, den, 0)
             q == (num * 2^k) \div den
             r == (num * 2^k) % den
         IN  Renorm(RoundNearestEven(q, IF 2 * r >= den THEN 1 ELSE 0, 2 * r # den), -k)

\* `c as f32`: the nearest f32 to a u64, ties to even.
U64ToF32(x) ==
    LET l == BitLen(x)
    IN  IF l = 0 THEN F32Zero
        ELSE IF l <= 24 THEN [m |-> (x[1] + 256 * x[2] + 65536 * x[3]) * 2^(24 - l),
                              e |-> l - 24]
        ELSE LET s == l - 24
             IN  Renorm(RoundNearestEven(BitField(x, s, 24), BitOf(x, s - 1),
                                         \E j \in 0..(s - 2) : BitOf(x, j) = 1), s)

\* a * b in f32, rounded to nearest, ties to even.  The operands are a
\* probability in [2^-7, 1] and a quantity in [1, 2^64], so the product is
\* neither subnormal nor infinite.  The 48-bit product of the significands is
\* hi * 2^24 + lo, computed from 12-bit halves.
F32Mul(a, b) ==
    IF a.m = 0 \/ b.m = 0 THEN F32Zero
    ELSE LET a1 == a.m \div 4096
             a0 == a.m % 4096
             b1 == b.m \div 4096
             b0 == b.m % 4096
             mid == a1 * b0 + a0 * b1
             loSum == a0 * b0 + (mid % 4096) * 4096
             lo == loSum % 16777216
             hi == a1 * b1 + (mid \div 4096) + (loSum \div 16777216)
         IN  IF hi >= 8388608
             THEN Renorm(RoundNearestEven(hi, lo \div 8388608, lo % 8388608 # 0),
                         a.e + b.e + 24)
             ELSE LET rem == lo % 8388608
                  IN  Renorm(RoundNearestEven(2 * hi + (lo \div 8388608),
                                              rem \div 4194304, rem % 4194304 # 0),
                             a.e + b.e + 23)

\* f32::round: the nearest integer, halves away from zero.
F32Round(x) ==
    IF x.m = 0 \/ x.e >= 0 THEN x
    ELSE IF x.e <= -25 THEN F32Zero
    ELSE IF x.e = -24 THEN F32FromNat(1)
    ELSE LET unit == 2^(-x.e)
             q == x.m \div unit
             r == x.m % unit
         IN  F32FromNat(q + (IF 2 * r >= unit THEN 1 ELSE 0))

\* `as u64` of a non-negative f32: truncates, and saturates at u64::MAX.
F32ToU64(x) ==
    IF x.m = 0 THEN U64Zero
    ELSE IF x.e >= 41 THEN U64Max
    ELSE IF x.e >= 0 THEN ShiftLeft(x.m, x.e)
    ELSE IF x.e <= -24 THEN U64Zero
    ELSE FromNat(x.m \div 2^(-x.e))

(***************************************************************************)
(* i32: the signed values of the guard.                                    *)
(***************************************************************************)
I32Max == 2147483647

I32Min == -I32Max - 1

\* `as i32` of a u64: the low 32 bits, read as two's complement.
U64ToI32(x) ==
    16777216 * (IF x[4] >= 128 THEN x[4] - 256 ELSE x[4])
        + 65536 * x[3] + 256 * x[2] + x[1]

\* a - b in i32: the wrapped difference and whether the exact one leaves i32.
I32Sub(a, b) ==
    LET over == (b < 0 /\ a > I32Max + b) \/ (b > 0 /\ a < I32Min + b)
    IN  [val |-> IF ~over THEN a - b
                 ELSE IF b < 0 THEN (((a - I32Max) - 1) - b) - I32Max - 1
                 ELSE (((a + I32Max) + 1) - b) + I32Max + 1,
         overflow |-> over]

\* `rhs.into() as u64` of an i32: sign-extended to i64, then reinterpreted.
I32ToU64(v) ==
    IF v >= 0 THEN FromNat(v)
    ELSE LET low == FromNat(v - I32Min)
         IN  <<low[1], low[2], low[3], low[4] + 128, 255, 255, 255, 255>>

(***************************************************************************)
(* The behaviours.  A behaviour is a record [kind, target, probability]; q *)
(* maps each bucket to its quantity; checks says whether the build panics  *)
(* on integer overflow (a debug build) or wraps (a release build).  An     *)
(* update yields the quantities it leaves, whether it panicked, whether    *)
(* any of its integer operations overflowed, and what it read and did: the *)
(* quantity c it computed from, the amount to_move, whether the guard let  *)
(* the move through, and the quantity the source held when it was          *)
(* decreased.                                                              *)
(***************************************************************************)
\* ToMove with the product by delta taken before the rounding (delta < 2^24).
ToMoveRoundLast(probability, c, delta) ==
    LET scaled == F32Mul(F32Mul(probability, U64ToF32(c)), U64ToF32(delta))
    IN  [val |-> U64ToI32(F32ToU64(F32Round(scaled))), overflow |-> FALSE]

\* ((probability * c as f32).round() as u64 * delta) as i32
ToMove(probability, c, delta) ==
    LET rounded == F32ToU64(F32Round(F32Mul(probability, U64ToF32(c))))
        product == U64Mul(rounded, delta)
    IN  [val |-> U64ToI32(product.val), overflow |-> product.overflow]

\* Transfer with the guard weakened to >= 0.
TransferNonStrict(q, target, bucket, guarded, move, checks) ==
    LET diff == I32Sub(U64ToI32(guarded), move.val)
        amount == I32ToU64(move.val)
        inc == U64Add(q[target], amount)
        q1 == [q EXCEPT ![target] = inc.val]
        dec == U64Sub(q1[bucket], amount)
        q2 == [q1 EXCEPT ![bucket] = dec.val]
        early == move.overflow \/ diff.overflow
        passed == diff.val >= 0
        out(qq, panicked, committed, overflowed) ==
            [quantity |-> qq, panic |-> panicked, committed |-> committed,
             overflow |-> overflowed, c |-> guarded, to_move |-> move.val,
             amount |-> amount, held |-> q1[bucket]]
    IN  IF checks /\ early THEN out(q, TRUE, FALSE, TRUE)
        ELSE IF ~passed THEN out(q, FALSE, FALSE, early)
        ELSE IF checks /\ inc.overflow THEN out(q, TRUE, TRUE, TRUE)
        ELSE IF checks /\ dec.overflow THEN out(q1, TRUE, TRUE, TRUE)
        ELSE out(q2, FALSE, TRUE, early \/ inc.overflow \/ dec.overflow)

\* The guarded transfer shared by both update rules: the guard reads `guarded`,
\* the move goes from `bucket` to `target`.
Transfer(q, target, bucket, guarded, move, checks) ==
    LET diff == I32Sub(U64ToI32(guarded), move.val)
        amount == I32ToU64(move.val)
        inc == U64Add(q[target], amount)
        q1 == [q EXCEPT ![target] = inc.val]
        dec == U64Sub(q1[bucket], amount)
        q2 == [q1 EXCEPT ![bucket] = dec.val]
        early == move.overflow \/ diff.overflow
        passed == diff.val > 0
        out(qq, panicked, committed, overflowed) ==
            [quantity |-> qq, panic |-> panicked, committed |-> committed,
             overflow |-> overflowed, c |-> guarded, to_move |-> move.val,
             amount |-> amount, held |-> q1[bucket]]
    IN  IF checks /\ early THEN out(q, TRUE, FALSE, TRUE)
        ELSE IF ~passed THEN out(q, FALSE, FALSE, early)
        ELSE IF checks /\ inc.overflow THEN out(q, TRUE, TRUE, TRUE)
        ELSE IF checks /\ dec.overflow THEN out(q1, TRUE, TRUE, TRUE)
        ELSE out(q2, FALSE, TRUE, early \/ inc.overflow \/ dec.overflow)

\* Diffusion::update: the move is computed from, and guarded by, the source.
DiffusionUpdate(q, self, bucket, delta, checks) ==
    LET c == q[bucket]
    IN  Transfer(q, self.target, bucket, c, ToMove(self.probability, c, delta), checks)

\* Infection::update: the move is computed from, and guarded by, the target.
InfectionUpdate(q, self, bucket, delta, checks) ==
    LET t == q[self.target]
    IN  Transfer(q, self.target, bucket, t, ToMove(self.probability, t, delta), checks)

\* Behaviour::update, dispatched on the boxed value's type.
Update(q, self, bucket, delta, checks) ==
    IF self.kind = "Diffusion" THEN DiffusionUpdate(q, self, bucket, delta, checks)
    ELSE InfectionUpdate(q, self, bucket, delta, checks)

\* Diffusion::new and Infection::new: both box a Diffusion.
DiffusionNew(target, probability) ==
    [kind |-> "Diffusion", target |-> target, probability |-> probability]

\* An Infection::new that boxes an Infection.
InfectionNewOfItsType(target, probability) ==
    [kind |-> "Infection", target |-> target, probability |-> probability]

InfectionNew(target, probability) ==
    [kind |-> "Diffusion", target |-> target, probability |-> probability]

\* An Infection value, which no constructor returns.
InfectionValue(target, probability) ==
    [kind |-> "Infection", target |-> target, probability |-> probability]

(***************************************************************************)
(* The text of a quantity: format!("{}", bucket.get()).                    *)
(***************************************************************************)
RECURSIVE DivSmallFrom(_, _, _, _)
\* Long division of the digits i..1 of x by d <= 255 with incoming remainder:
\* the quotient's digits, most significant first, then the remainder.
DivSmallFrom(x, d, i, rem) ==
    IF i = 0 THEN <<rem>>
    ELSE LET cur == rem * 256 + x[i]
         IN  <<cur \div d>> \o DivSmallFrom(x, d, i - 1, cur % d)

DivSmall(x, d) ==
    LET r == DivSmallFrom(x, d, 8, 0)
    IN  [quot |-> <<r[8], r[7], r[6], r[5], r[4], r[3], r[2], r[1]>>, rem |-> r[9]]

RECURSIVE DecimalDigits(_)
DecimalDigits(x) ==
    IF x = U64Zero THEN <<>>
    ELSE LET qr == DivSmall(x, 10) IN Append(DecimalDigits(qr.quot), qr.rem)

\* The decimal digits of a u64, most significant first; "0" for zero.
Format(x) == IF x = U64Zero THEN <<0>> ELSE DecimalDigits(x)

(***************************************************************************)
(* The state.                                                              *)
(*   name, quantity, behaviours   the BucketState of each bucket           *)
(*   buckets                      Model.buckets: handles, in insertion     *)
(*                                order                                    *)
(*   speed                        the argument of Model::run               *)
(*   build                        whether the build checks integer         *)
(*                                overflow ("debug") or wraps ("release"); *)
(*                                "unknown" until an operation overflows,  *)
(*                                up to where the two builds run alike     *)
(*   simulated                    the retained rows of Model::run          *)
(*   pc, idx, k                   where the loop is: the bucket being      *)
(*                                advanced and its next behaviour          *)
(*   iterations                   how many iterations have begun, counted  *)
(*                                up to MaxCounted                         *)
(*   start                        the quantities the last snapshot showed  *)
(*   last                         what the last behaviour update did       *)
(*   borrow                       the flag of every RefCell, of bucket     *)
(*                                states and of behaviours: 0 free, n > 0  *)
(*                                shared n times, -1 borrowed mutably      *)
(*   frame                        the locals of the calls in progress: the *)
(*                                copied list bs, c and to_move            *)
(***************************************************************************)
VARIABLES name, quantity, behaviours, buckets, speed, build,
          simulated, pc, idx, k, iterations, start, last, borrow, frame

vars == <<name, quantity, behaviours, buckets, speed, build,
          simulated, pc, idx, k, iterations, start, last, borrow, frame>>

\* simulated.truncate(10)
HistoryLimit == 10

\* Iterations are counted this far.
MaxCounted == 12

\* Bounds of the initial states of Spec.
MaxQuantity == 2

MaxSpeed == 2

MaxSweeps == 2

Ids == 1..3

NoUpdate == [kind |-> "none"]

Min(a, b) == IF a <= b THEN a ELSE b

\* Every RefCell free, and no call in progress.
NoBorrow ==
    [state |-> [b \in Ids |-> 0],
     cell |-> [b \in Ids |-> [j \in 1..Len(behaviours[b]) |-> 0]]]

NoFrame == [bs |-> <<>>, c |-> U64Zero, to_move |-> 0]

\* A loop that advances the buckets before it takes its snapshot.
EnteringSweepFirst ==
    /\ simulated = <<>>
    /\ pc = "sweep"
    /\ idx = 1
    /\ k = 1
    /\ iterations = 0
    /\ build = "unknown"
    /\ start = quantity
    /\ last = NoUpdate
    /\ borrow = NoBorrow
    /\ frame = NoFrame

\* The state in which Model::run enters its loop.
Entering ==
    /\ simulated = <<>>
    /\ pc = "snapshot"
    /\ idx = 1
    /\ k = 1
    /\ iterations = 0
    /\ build = "unknown"
    /\ start = quantity
    /\ last = NoUpdate
    /\ borrow = NoBorrow
    /\ frame = NoFrame

\* main: Susceptible = 1000 infecting Infected = 1 at 0.01, Infected
\* recovering into Recovered = 0 at 0.2, run at speed 1.
InitMain ==
    /\ name = <<"Susceptible", "Infected", "Recovered">>
    /\ quantity = <<FromNat(1000), FromNat(1), U64Zero>>
    /\ behaviours = << <<InfectionNew(2, F32Literal(1, 100))>>,
                       <<DiffusionNew(3, F32Literal(1, 5))>>,
                       <<>> >>
    /\ buckets = <<1, 2, 3>>
    /\ speed = FromNat(1)
    /\ Entering

\* The sweep taken from the last bucket to the first.
CurrentReversed == buckets[Len(buckets) + 1 - idx]

\* The bucket being advanced, and the row a snapshot adds.
Current == buckets[idx]

Row == [i \in 1..Len(buckets) |-> Format(quantity[buckets[i]])]

\* Snapshot without the truncation of the history.
SnapshotUntruncated ==
    /\ pc = "snapshot"
    /\ simulated' = <<Row>> \o simulated
    /\ iterations' = Min(iterations + 1, MaxCounted)
    /\ start' = quantity
    /\ pc' = "sweep"
    /\ idx' = 1
    /\ k' = 1
    /\ UNCHANGED <<borrow, frame, name, quantity, behaviours, buckets, speed, build, last>>

\* Model::run, lines 147-160: push the row in front, keep the first ten.
Snapshot ==
    /\ pc = "snapshot"
    /\ simulated' = SubSeq(<<Row>> \o simulated, 1, Min(Len(simulated) + 1, HistoryLimit))
    /\ iterations' = Min(iterations + 1, MaxCounted)
    /\ start' = quantity
    /\ pc' = "sweep"
    /\ idx' = 1
    /\ k' = 1
    /\ UNCHANGED <<borrow, frame, name, quantity, behaviours, buckets, speed, build, last>>

\* Whether the build's overflow checks are on: either, while no operation has
\* overflowed.
Checks == IF build = "unknown" THEN BOOLEAN ELSE {build = "debug"}

\* Bucket::update running the behaviours from the last attached to the first.
BehaviourUpdateReversed ==
    /\ pc = "sweep"
    /\ idx <= Len(buckets)
    /\ k <= Len(behaviours[Current])
    /\ \E checks \in Checks :
       \E self \in {behaviours[Current][Len(behaviours[Current]) + 1 - k]} :
       \E r \in {Update(quantity, self, Current, speed, checks)} :
           /\ quantity' = r.quantity
           /\ last' = [kind |-> self.kind, source |-> Current, target |-> self.target,
                       probability |-> self.probability, before |-> quantity, c |-> r.c, to_move |-> r.to_move,
                       amount |-> r.amount, held |-> r.held,
                       committed |-> r.committed, panic |-> r.panic,
                       names |-> name, lists |-> behaviours]
           /\ build' = IF ~r.overflow THEN build
                       ELSE IF checks THEN "debug" ELSE "release"
           /\ pc' = IF r.panic THEN "aborted" ELSE "sweep"
    /\ k' = k + 1
    /\ UNCHANGED <<borrow, frame, name, behaviours, buckets, speed, simulated, idx,
                   iterations, start>>

\* Bucket::update, line 36: the next behaviour of the bucket being advanced
\* runs its update; a panic ends the process.
BehaviourUpdate ==
    /\ pc = "sweep"
    /\ idx <= Len(buckets)
    /\ k <= Len(behaviours[Current])
    /\ \E checks \in Checks :
       \E self \in {behaviours[Current][k]} :
       \E r \in {Update(quantity, self, Current, speed, checks)} :
           /\ quantity' = r.quantity
           /\ last' = [kind |-> self.kind, source |-> Current, target |-> self.target,
                       probability |-> self.probability, before |-> quantity, c |-> r.c, to_move |-> r.to_move,
                       amount |-> r.amount, held |-> r.held,
                       committed |-> r.committed, panic |-> r.panic,
                       names |-> name, lists |-> behaviours]
           /\ build' = IF ~r.overflow THEN build
                       ELSE IF checks THEN "debug" ELSE "release"
           /\ pc' = IF r.panic THEN "aborted" ELSE "sweep"
    /\ k' = k + 1
    /\ UNCHANGED <<borrow, frame, name, behaviours, buckets, speed, simulated, idx,
                   iterations, start>>

\* Bucket::update returns: the sweep of lines 161-163 moves to the next bucket,
\* and past the last one the loop sleeps.
BucketDone ==
    /\ pc = "sweep"
    /\ idx <= Len(buckets)
    /\ k > Len(behaviours[Current])
    /\ idx' = idx + 1
    /\ k' = 1
    /\ pc' = IF idx = Len(buckets) THEN "sleep" ELSE "sweep"
    /\ UNCHANGED <<borrow, frame, name, quantity, behaviours, buckets, speed, build, simulated,
                   iterations, start, last>>

\* A loop that leaves after its first iteration.
SleepOnce ==
    /\ pc = "sleep"
    /\ iterations < 1
    /\ pc' = "snapshot"
    /\ UNCHANGED <<borrow, frame, name, quantity, behaviours, buckets, speed, build, simulated,
                   idx, k, iterations, start, last>>

\* Model::run, line 164, and the loop's back edge.
Sleep ==
    /\ pc = "sleep"
    /\ pc' = "snapshot"
    /\ UNCHANGED <<borrow, frame, name, quantity, behaviours, buckets, speed, build, simulated,
                   idx, k, iterations, start, last>>

Next == Snapshot \/ BehaviourUpdate \/ BucketDone \/ Sleep

\* The program main builds.
SpecMain == InitMain /\ [][Next]_vars

\* The loop is one thread whose every step returns (the sleep is of a fixed
\* tenth of a second), so a step that can be taken is taken.
\* Weak fairness of each step; for the two steps that compute on the quantities
\* the enabling condition is written out: a snapshot can be taken whenever the
\* loop is at it, and an update can run whenever the bucket being advanced has
\* a behaviour left.
UpdateEnabled == pc = "sweep" /\ idx <= Len(buckets) /\ k <= Len(behaviours[Current])

SpecMainFair ==
    /\ SpecMain
    /\ ([]<>(pc # "snapshot") \/ []<><<Snapshot>>_vars)
    /\ ([]<>(~UpdateEnabled) \/ []<><<BehaviourUpdate>>_vars)
    /\ WF_vars(BucketDone)
    /\ WF_vars(Sleep)

(***************************************************************************)
(* Any wiring: up to two Diffusion behaviours attached, in some order, to  *)
(* three buckets holding any of the quantities below.                      *)
(***************************************************************************)
\* 2^32 - 255: a quantity whose low 32 bits are negative as an i32.
Wide == <<1, 255, 255, 255, 0, 0, 0, 0>>

\* The seeded quantities: none, one, the largest small one, and Wide.
Quantities == {FromNat(n) : n \in {0, 1, MaxQuantity}} \cup {Wide}

Speeds == {FromNat(n) : n \in 1..MaxSpeed}

Probabilities == {F32Literal(1, 2), F32Literal(1, 1)}

Attachments == Ids \X Ids

\* Bucket::add of a behaviour built by Diffusion::new: a = <<source, target>>.
Attach(bs, a, probability) ==
    [bs EXCEPT ![a[1]] = Append(@, DiffusionNew(a[2], probability))]

Unwired == [i \in Ids |-> <<>>]

\* The wirings of up to two attachments, every behaviour with the same probability.
Wirings(p) ==
    {Unwired} \cup {Attach(Unwired, a, p) : a \in Attachments}
              \cup {Attach(Attach(Unwired, a, p), b, p) : a \in Attachments, b \in Attachments}

Init ==
    /\ name = <<"A", "B", "C">>
    /\ quantity \in [Ids -> Quantities]
    /\ \E p \in Probabilities : behaviours \in Wirings(p)
    /\ buckets = <<1, 2, 3>>
    /\ speed \in Speeds
    /\ Entering

\* The loop of Model::run, followed for MaxSweeps iterations.
Bounded == iterations < MaxSweeps

NextBounded == Snapshot \/ BehaviourUpdate \/ BucketDone \/ (Bounded /\ Sleep)

Spec == Init /\ [][NextBounded]_vars

(***************************************************************************)
(* One update rule on its inputs: a single behaviour, of either type, from *)
(* bucket 1 to bucket 2, over quantities, probabilities and tick counts    *)
(* that reach the ends of their types.                                     *)
(***************************************************************************)
\* 2^32 - 1, and 2^63.
U32Max == <<255, 255, 255, 255, 0, 0, 0, 0>>

HalfRange == <<0, 0, 0, 0, 0, 0, 0, 128>>

\* The probabilities as fractions, and as the f32 values the behaviours hold.
Fractions == {<<0, 1>>, <<1, 100>>, <<1, 5>>, <<1, 2>>, <<1, 1>>}

SourceQuantities ==
    {FromNat(n) : n \in 0..MaxQuantity}
        \cup {FromNat(50), FromNat(150), FromNat(1000), Wide, HalfRange, U64Max}

TargetQuantities == {FromNat(n) : n \in 0..MaxQuantity} \cup {U64Max}

TickCounts == Speeds \cup {U32Max}

InitUpdate ==
    /\ name = <<"A", "B", "C">>
    /\ \E c \in SourceQuantities, t \in TargetQuantities : quantity = <<c, t, U64Zero>>
    /\ \E f \in Fractions :
       \E b \in {DiffusionNew(2, F32Literal(f[1], f[2])),
                 InfectionValue(2, F32Literal(f[1], f[2]))} :
           behaviours = << <<b>>, <<>>, <<>> >>
    /\ buckets = <<1, 2, 3>>
    /\ speed \in TickCounts
    /\ Entering

SpecUpdate == InitUpdate /\ [][NextBounded]_vars

(***************************************************************************)
(* A sweep at the grain of the borrows of the RefCells. Every borrow and   *)
(* every release is a step: Bucket::update copies the list under a mutable *)
(* borrow of the bucket's state, each behaviour runs under a mutable       *)
(* borrow of its own cell, and Diffusion::update reads the source, then    *)
(* writes the target, then the source, each under a borrow of its own. A   *)
(* borrow that RefCell refuses panics. The model may hold the same bucket  *)
(* twice, and a behaviour may target the bucket it is attached to.         *)
(***************************************************************************)
\* RefCell::borrow_mut and RefCell::borrow on a flag f.
BorrowMut(f) == [ok |-> f = 0, flag |-> -1]

BorrowShared(f) == [ok |-> f >= 0, flag |-> f + 1]

SetState(b, f) == [borrow EXCEPT !.state[b] = f]

SetCell(b, j, f) == [borrow EXCEPT !.cell[b][j] = f]

\* The behaviour running, from the copied list.
Running == frame.bs[k]

\* What no step of a sweep changes.
Fixed == <<name, behaviours, buckets, speed, simulated, iterations, start, last>>

\* Bucket::update, line 34: self.state.borrow_mut()
CloneAcquire ==
    /\ pc = "sweep"
    /\ idx <= Len(buckets)
    /\ \E r \in {BorrowMut(borrow.state[Current])} :
           /\ borrow' = IF r.ok THEN SetState(Current, r.flag) ELSE borrow
           /\ pc' = IF r.ok THEN "cloning" ELSE "borrow_panic"
    /\ UNCHANGED <<quantity, build, idx, k, frame>>
    /\ UNCHANGED Fixed

\* The copy of the list made while the borrow stays active over the behaviours.
CloneKeep ==
    /\ pc = "cloning"
    /\ frame' = [frame EXCEPT !.bs = behaviours[Current]]
    /\ k' = 1
    /\ pc' = "iterate"
    /\ UNCHANGED <<quantity, build, idx, borrow>>
    /\ UNCHANGED Fixed

\* Bucket::update, line 34: .behaviours.clone(), and the end of the block.
CloneRelease ==
    /\ pc = "cloning"
    /\ frame' = [frame EXCEPT !.bs = behaviours[Current]]
    /\ borrow' = SetState(Current, 0)
    /\ k' = 1
    /\ pc' = "iterate"
    /\ UNCHANGED <<quantity, build, idx>>
    /\ UNCHANGED Fixed

\* Bucket::update, line 36: bs.borrow_mut() on the next behaviour of the copy.
CellAcquire ==
    /\ pc = "iterate"
    /\ k <= Len(frame.bs)
    /\ \E r \in {BorrowMut(borrow.cell[Current][k])} :
           /\ borrow' = IF r.ok THEN SetCell(Current, k, r.flag) ELSE borrow
           /\ pc' = IF r.ok THEN "get" ELSE "borrow_panic"
    /\ UNCHANGED <<quantity, build, idx, k, frame>>
    /\ UNCHANGED Fixed

\* Bucket::update returns once the copy is exhausted.
AdvanceDone ==
    /\ pc = "iterate"
    /\ k > Len(frame.bs)
    /\ idx' = idx + 1
    /\ k' = 1
    /\ frame' = NoFrame
    /\ pc' = IF idx = Len(buckets) THEN "sleep" ELSE "sweep"
    /\ UNCHANGED <<quantity, build, borrow>>
    /\ UNCHANGED Fixed

\* Diffusion::update, line 84, Bucket::get, line 46: self.state.borrow()
GetAcquire ==
    /\ pc = "get"
    /\ \E r \in {BorrowShared(borrow.state[Current])} :
           /\ borrow' = IF r.ok THEN SetState(Current, r.flag) ELSE borrow
           /\ pc' = IF r.ok THEN "read" ELSE "borrow_panic"
    /\ UNCHANGED <<quantity, build, idx, k, frame>>
    /\ UNCHANGED Fixed

\* Line 46 reads the quantity and drops the borrow; lines 85-86 compute the
\* move and the guard.
GetRelease ==
    /\ pc = "read"
    /\ \E checks \in Checks :
       \E c \in {quantity[Current]} :
       \E move \in {ToMove(Running.probability, c, speed)} :
       \E diff \in {I32Sub(U64ToI32(c), move.val)} :
           /\ frame' = [frame EXCEPT !.c = c, !.to_move = move.val]
           /\ build' = IF ~(move.overflow \/ diff.overflow) THEN build
                       ELSE IF checks THEN "debug" ELSE "release"
           /\ pc' = IF checks /\ (move.overflow \/ diff.overflow) THEN "aborted"
                    ELSE IF diff.val > 0 THEN "inc" ELSE "return"
    /\ borrow' = SetState(Current, borrow.state[Current] - 1)
    /\ UNCHANGED <<quantity, idx, k>>
    /\ UNCHANGED Fixed

\* Line 87, AddAssign, line 64: self.state.borrow_mut() on the target
IncAcquire ==
    /\ pc = "inc"
    /\ \E r \in {BorrowMut(borrow.state[Running.target])} :
           /\ borrow' = IF r.ok THEN SetState(Running.target, r.flag) ELSE borrow
           /\ pc' = IF r.ok THEN "adding" ELSE "borrow_panic"
    /\ UNCHANGED <<quantity, build, idx, k, frame>>
    /\ UNCHANGED Fixed

\* Line 64: quantity += rhs.into() as u64, and the borrow dropped.
IncRelease ==
    /\ pc = "adding"
    /\ \E checks \in Checks :
       \E inc \in {U64Add(quantity[Running.target], I32ToU64(frame.to_move))} :
           /\ quantity' = IF checks /\ inc.overflow THEN quantity
                          ELSE [quantity EXCEPT ![Running.target] = inc.val]
           /\ borrow' = IF checks /\ inc.overflow THEN borrow
                        ELSE SetState(Running.target, 0)
           /\ build' = IF ~inc.overflow THEN build
                       ELSE IF checks THEN "debug" ELSE "release"
           /\ pc' = IF checks /\ inc.overflow THEN "aborted" ELSE "dec"
    /\ UNCHANGED <<idx, k, frame>>
    /\ UNCHANGED Fixed

\* Line 89, SubAssign, line 73: self.state.borrow_mut() on the source
DecAcquire ==
    /\ pc = "dec"
    /\ \E r \in {BorrowMut(borrow.state[Current])} :
           /\ borrow' = IF r.ok THEN SetState(Current, r.flag) ELSE borrow
           /\ pc' = IF r.ok THEN "subtracting" ELSE "borrow_panic"
    /\ UNCHANGED <<quantity, build, idx, k, frame>>
    /\ UNCHANGED Fixed

\* Line 73: quantity -= rhs.into() as u64, and the borrow dropped.
DecRelease ==
    /\ pc = "subtracting"
    /\ \E checks \in Checks :
       \E dec \in {U64Sub(quantity[Current], I32ToU64(frame.to_move))} :
           /\ quantity' = IF checks /\ dec.overflow THEN quantity
                          ELSE [quantity EXCEPT ![Current] = dec.val]
           /\ borrow' = IF checks /\ dec.overflow THEN borrow
                        ELSE SetState(Current, 0)
           /\ build' = IF ~dec.overflow THEN build
                       ELSE IF checks THEN "debug" ELSE "release"
           /\ pc' = IF checks /\ dec.overflow THEN "aborted" ELSE "return"
    /\ UNCHANGED <<idx, k, frame>>
    /\ UNCHANGED Fixed

\* Line 36: Diffusion::update returns and the behaviour's borrow is dropped.
CellRelease ==
    /\ pc = "return"
    /\ borrow' = SetCell(Current, k, 0)
    /\ frame' = [frame EXCEPT !.c = U64Zero, !.to_move = 0]
    /\ k' = k + 1
    /\ pc' = "iterate"
    /\ UNCHANGED <<quantity, build, idx>>
    /\ UNCHANGED Fixed

\* Models of three handles: three buckets, or the first bucket added twice.
BucketLists == {<<1, 2, 3>>, <<1, 1, 2>>}

InitBorrow ==
    /\ name = <<"A", "B", "C">>
    /\ quantity \in [Ids -> {U64Zero, FromNat(MaxQuantity)}]
    /\ behaviours \in Wirings(F32Literal(1, 2))
    /\ buckets \in BucketLists
    /\ speed \in Speeds
    /\ Entering

NextBorrow ==
    \/ Snapshot
    \/ CloneAcquire
    \/ CloneRelease
    \/ CellAcquire
    \/ AdvanceDone
    \/ GetAcquire
    \/ GetRelease
    \/ IncAcquire
    \/ IncRelease
    \/ DecAcquire
    \/ DecRelease
    \/ CellRelease
    \/ (Bounded /\ Sleep)

SpecBorrow == InitBorrow /\ [][NextBorrow]_vars

(***************************************************************************)
(* The claims.                                                             *)
(***************************************************************************)
\* The exact sum of the three quantities: nine digits, least significant first.
Total(q) == PropagateFrom([i \in Digits |-> q[1][i] + q[2][i] + q[3][i]], 1, 0)

AfterUpdate == last.kind # "none"

\* C1 (non-negativity): every quantity is a u64, never below zero, and no
\* update that goes through decreases its source by more than the source holds.
C1_NonNegativity ==
    /\ \A b \in Ids : \A i \in Digits : quantity[b][i] \in 0..255
    /\ (AfterUpdate /\ last.kind = "Diffusion" /\ last.committed /\ ~last.panic)
           => U64LessEq(last.amount, last.held)

\* C2 (conservation): a Diffusion update that returns leaves the sum of all
\* quantities as it found it, whether it moved anything or not.
C2_Conservation ==
    (AfterUpdate /\ last.kind = "Diffusion" /\ ~last.panic)
        => Total(quantity) = Total(last.before)

\* The chain A -> B -> C: one behaviour on A targeting B, one on B targeting C.
Chain(p) ==
    behaviours = << <<DiffusionNew(2, p)>>, <<DiffusionNew(3, p)>>, <<>> >>

IsChain == \E p \in Probabilities : Chain(p)

\* A's update applied to q0, and then B's applied to what A left.
AfterA(q0) == Update(q0, behaviours[1][1], 1, speed, FALSE).quantity

Sequential(q0) == Update(AfterA(q0), behaviours[2][1], 2, speed, FALSE).quantity

\* B's move computed from the quantities q0 of the start of the tick instead.
FromSnapshot(q0) ==
    Transfer(AfterA(q0), behaviours[2][1].target, 2, q0[2],
             ToMove(behaviours[2][1].probability, q0[2], speed), FALSE).quantity

TwoTwoZero == <<FromNat(2), FromNat(2), U64Zero>>

\* C3 (order sensitivity): on the chain, a sweep leaves what A's update followed
\* by B's leaves, B's update reads B's quantity as A's update left it, and from
\* 2, 2, 0 at probability 1/2 and speed 1 the sweep ends in 1, 1, 2, which is
\* not what B's move computed from the start of the tick gives.
C3_OrderSensitivity ==
    /\ (IsChain /\ pc = "sleep") => quantity = Sequential(start)
    /\ (IsChain /\ pc = "sweep" /\ idx = 2 /\ k = 2)
           => (last.source = 2 /\ last.c = AfterA(start)[2])
    /\ (Chain(F32Literal(1, 2)) /\ pc = "sleep" /\ speed = FromNat(1)
            /\ start = TwoTwoZero)
           => (/\ quantity = <<FromNat(1), FromNat(1), FromNat(2)>>
               /\ quantity # FromSnapshot(start))

C3_Witness ==
    /\ Chain(F32Literal(1, 2))
    /\ pc = "sleep"
    /\ speed = FromNat(1)
    /\ start = TwoTwoZero
    /\ FromSnapshot(start) = <<FromNat(1), FromNat(2), FromNat(1)>>

\* C4 (guard boundary): a Diffusion update whose move equals the source's
\* quantity changes no quantity, and an update goes through only when the
\* source's quantity minus the move is above zero.
C4_GuardBoundary ==
    (AfterUpdate /\ last.kind = "Diffusion")
        => /\ (last.to_move >= 0 /\ FromNat(last.to_move) = last.c)
                  => (~last.committed /\ quantity = last.before)
           /\ last.committed
                  => (last.to_move < 0 \/ U64Less(FromNat(last.to_move), last.c))

C4_Witness ==
    /\ AfterUpdate
    /\ last.kind = "Diffusion"
    /\ last.to_move > 0
    /\ FromNat(last.to_move) = last.c
    /\ ~last.committed
    /\ quantity = last.before

\* C5 (first sweep of main's scenario): after the first sweep Recovered is 0
\* and Infected holds what the behaviour on Susceptible left in it.
C5_FirstSweep ==
    (pc = "sleep" /\ iterations = 1)
        => /\ quantity[3] = U64Zero
           /\ quantity[2] = AfterA(start)[2]

\* The integer nearest to n * c / d, halves upwards, for n, c >= 0 and d > 0.
Nearest(n, d, c) == (2 * n * c + d) \div (2 * d)

SmallCase ==
    /\ AfterUpdate
    /\ last.kind = "Diffusion"
    /\ IsSmall(last.c)
    /\ IsSmall(speed)
    /\ ToNat(last.c) <= 1000
    /\ ToNat(speed) <= MaxSpeed

\* C6 (rounding): the move of a Diffusion update is the probability times the
\* source's quantity, rounded to the nearest integer, then multiplied by the
\* ticks; for 0.01, 1000 and one tick it is 10.
C6_Rounding ==
    /\ SmallCase =>
           \A f \in Fractions :
               last.probability = F32Literal(f[1], f[2])
                   => last.to_move = Nearest(f[1], f[2], ToNat(last.c)) * ToNat(speed)
    /\ (AfterUpdate /\ last.kind = "Diffusion" /\ last.c = FromNat(1000)
            /\ last.probability = F32Literal(1, 100) /\ speed = FromNat(1))
           => last.to_move = 10

C6_Witness ==
    /\ SmallCase
    /\ last.c = FromNat(1000)
    /\ last.probability = F32Literal(1, 100)
    /\ speed = FromNat(1)
    /\ last.to_move = 10
    /\ last.committed

\* C7 (bounded history): the history holds min(n, 10) rows after n iterations,
\* its first row is the one of the latest snapshot, and a snapshot moves every
\* row kept one place back, so that past ten iterations the ten latest remain.
C7_BoundedHistory ==
    /\ [](Len(simulated) = Min(iterations, HistoryLimit))
    /\ [](iterations > 0 =>
              simulated[1] = [i \in 1..Len(buckets) |-> Format(start[buckets[i]])])
    /\ [][simulated' # simulated =>
              /\ simulated'[1] = Row
              /\ \A j \in 2..Len(simulated') : simulated'[j] = simulated[j - 1]]_vars

C7_Witness ==
    /\ iterations > HistoryLimit
    /\ Len(simulated) = HistoryLimit
    /\ \A i, j \in 1..HistoryLimit : i # j => simulated[i] # simulated[j]

\* C8 (no internal exit): in main's scenario no update aborts or overflows, in
\* either build, and every snapshot is followed by the end of its sweep and
\* every sweep by the next snapshot.
C8_NoInternalExit ==
    /\ [](pc # "aborted" /\ build = "unknown")
    /\ (pc = "snapshot" ~> pc = "sleep")
    /\ (pc = "sleep" ~> pc = "snapshot")

C8_Witness ==
    /\ pc = "sleep"
    /\ iterations = MaxCounted
    /\ start = <<FromNat(49), FromNat(2), FromNat(950)>>
    /\ quantity = start

\* C9 (underflow guard under machine arithmetic): a move that Diffusion.update
\* commits is non-negative and strictly less than the source's quantity.
C9_UnderflowGuard ==
    (AfterUpdate /\ last.kind = "Diffusion" /\ last.committed)
        => (last.to_move >= 0 /\ U64Less(last.amount, last.c))

\* C10 (both variants guard): no update of either type decreases the source by
\* more than the source holds.
C10_BothGuard ==
    (AfterUpdate /\ last.committed) => U64LessEq(last.amount, last.held)

\* C11 (Infection as constructed): on the quantities any update found, in
\* either build, the behaviour Infection::new makes has the result the one
\* Diffusion::new makes has, and a Diffusion update left what it leaves.
C11_SameAsConstructed ==
    AfterUpdate =>
        /\ \A ch \in BOOLEAN :
               Update(last.before, InfectionNew(last.target, last.probability),
                      last.source, speed, ch)
                   = Update(last.before, DiffusionNew(last.target, last.probability),
                            last.source, speed, ch)
        /\ last.kind = "Diffusion" =>
               \E ch \in BOOLEAN :
                   quantity = Update(last.before,
                                     InfectionNew(last.target, last.probability),
                                     last.source, speed, ch).quantity

\* A committed Diffusion update on which the rule of the Infection type would
\* have left other quantities.
C11_Witness ==
    /\ AfterUpdate
    /\ last.kind = "Diffusion"
    /\ last.committed
    /\ ~last.panic
    /\ quantity # last.before
    /\ quantity # Update(last.before, InfectionValue(last.target, last.probability),
                         last.source, speed, FALSE).quantity

\* |m| as a u64, for an i32 m.
Magnitude(m) ==
    IF m = I32Min THEN <<0, 0, 0, 128, 0, 0, 0, 0>>
    ELSE IF m < 0 THEN FromNat(-m) ELSE FromNat(m)

\* x + m and x - m in the integers, with overflow set when the result is no u64.
Raised(x, m) == IF m < 0 THEN U64Sub(x, Magnitude(m)) ELSE U64Add(x, Magnitude(m))

Lowered(x, m) == IF m < 0 THEN U64Add(x, Magnitude(m)) ELSE U64Sub(x, Magnitude(m))

\* c - moved > 0 in the integers.
GuardHolds == last.to_move < 0 \/ U64Less(Magnitude(last.to_move), last.c)

\* C12 (frame of a Diffusion update): the update returns; names and behaviour
\* lists are as before; when c - moved <= 0 no quantity changed, and otherwise
\* the target is up by moved, the source down by moved, and nothing else moved.
C12_Frame ==
    (AfterUpdate /\ last.kind = "Diffusion") =>
        LET up == Raised(last.before[last.target], last.to_move)
            q1 == [last.before EXCEPT ![last.target] = up.val]
            down == Lowered(q1[last.source], last.to_move)
        IN  /\ ~last.panic
            /\ name = last.names
            /\ behaviours = last.lists
            /\ IF GuardHolds
               THEN /\ ~up.overflow
                    /\ ~down.overflow
                    /\ quantity = [q1 EXCEPT ![last.source] = down.val]
               ELSE quantity = last.before

\* The behaviour a finished update ran.
LastBehaviour ==
    [kind |-> last.kind, target |-> last.target, probability |-> last.probability]

\* C13 (attachment order): while a bucket is advanced the update that ran last
\* is the one of the behaviour attached just before the next to run, no
\* behaviour runs past the last attached, the bucket is left only once all have
\* run, and on the first bucket the second behaviour found, and read, the
\* quantities the first had left.
C13_AttachmentOrder ==
    /\ (pc = "sweep" /\ idx <= Len(buckets))
           => k \in 1..(Len(behaviours[Current]) + 1)
    /\ (pc = "sweep" /\ idx <= Len(buckets) /\ k > 1)
           => (last.source = Current /\ LastBehaviour = behaviours[Current][k - 1])
    /\ (pc \in {"sweep", "sleep"} /\ idx > 1 /\ k = 1
            /\ behaviours[buckets[idx - 1]] # <<>>)
           => /\ last.source = buckets[idx - 1]
              /\ LastBehaviour
                     = behaviours[buckets[idx - 1]][Len(behaviours[buckets[idx - 1]])]
    /\ (pc = "sweep" /\ idx = 1 /\ k = 2)
           => /\ last.before = start
              /\ quantity = Update(start, behaviours[1][1], 1, speed, FALSE).quantity
    /\ (pc = "sweep" /\ idx = 1 /\ k = 3)
           => LET q1 == Update(start, behaviours[1][1], 1, speed, FALSE).quantity
              IN  /\ last.before = q1
                  /\ last.c = q1[1]
                  /\ quantity = Update(q1, behaviours[1][2], 1, speed, FALSE).quantity

\* Two behaviours on A, to B and then to C, at 1/2 from 2, 0, 0: the first
\* moved 1, and the second, reading 1, moved nothing.
C13_Witness ==
    /\ pc = "sweep"
    /\ idx = 1
    /\ k = 3
    /\ behaviours[1] = <<DiffusionNew(2, F32Literal(1, 2)), DiffusionNew(3, F32Literal(1, 2))>>
    /\ speed = FromNat(1)
    /\ start = <<FromNat(2), U64Zero, U64Zero>>
    /\ quantity = <<FromNat(1), FromNat(1), U64Zero>>
    /\ last.c = FromNat(1)
    /\ ~last.committed

\* Bucket::update on bucket b from its j-th behaviour on, and one sweep of the
\* buckets from the i-th on, as functions of the quantities (no panic). Each
\* intermediate result is bound as a value before the next step reads it.
RECURSIVE AdvanceFrom(_, _, _)
AdvanceFrom(q, b, j) ==
    IF j > Len(behaviours[b]) THEN q
    ELSE CHOOSE r \in {AdvanceFrom(q1, b, j + 1) :
                           q1 \in {Update(q, behaviours[b][j], b, speed, FALSE).quantity}} : TRUE

RECURSIVE SweepFrom(_, _)
SweepFrom(q, i) ==
    IF i > Len(buckets) THEN q
    ELSE CHOOSE r \in {SweepFrom(q1, i + 1) : q1 \in {AdvanceFrom(q, buckets[i], 1)}} : TRUE

RECURSIVE SweepN(_, _)
SweepN(q, n) ==
    IF n = 0 THEN q
    ELSE CHOOSE r \in {SweepN(q1, n - 1) : q1 \in {SweepFrom(q, 1)}} : TRUE

RowOf(q) == [i \in 1..Len(buckets) |-> Format(q[buckets[i]])]

\* The quantities main seeds.
SeededMain == <<FromNat(1000), FromNat(1), U64Zero>>

\* C14 (snapshot precedes sweep): nothing is advanced before the first
\* snapshot, a snapshot is taken of the quantities the sweep then starts from,
\* the k-th snapshot is the row, in insertion order, of the quantities after
\* k - 1 complete sweeps from the seeded ones, and the next snapshot finds one
\* complete sweep more.
C14_SnapshotPrecedesSweep ==
    /\ iterations = 0 => (simulated = <<>> /\ quantity = SeededMain)
    /\ (pc = "sweep" /\ idx = 1 /\ k = 1) => quantity = start
    /\ (pc = "snapshot" /\ iterations > 0) => quantity = SweepFrom(start, 1)
    /\ iterations \in 1..(MaxCounted - 1) =>
           \A j \in 1..Len(simulated) :
               simulated[j] = RowOf(SweepN(SeededMain, iterations - j))

C14_Witness ==
    /\ iterations = 3
    /\ pc = "sweep"
    /\ idx = 1
    /\ k = 1
    /\ simulated = <<RowOf(quantity),
                     <<Format(FromNat(990)), Format(FromNat(9)), Format(FromNat(2))>>,
                     <<Format(FromNat(1000)), Format(FromNat(1)), Format(U64Zero)>> >>
    /\ simulated[1] # simulated[2]

\* C15 (never emptied): a bucket whose quantity is above zero before a
\* Diffusion update has a quantity above zero after it.
C15_NeverEmptied ==
    (AfterUpdate /\ last.kind = "Diffusion")
        => \A b \in Ids : last.before[b] # U64Zero => quantity[b] # U64Zero

\* C16 (steady state of main's scenario): the three quantities always add up
\* to 1001, and from some point on they are 49, 2, 950 at every step, each
\* sweep leaving them as its snapshot found them.
C16_SteadyState ==
    /\ [](Total(quantity) = Total(SeededMain))
    /\ [](Total(quantity) = <<233, 3, 0, 0, 0, 0, 0, 0, 0>>)
    /\ <>[](quantity = start /\ quantity = <<FromNat(49), FromNat(2), FromNat(950)>>)

\* A snapshot that finds what the snapshot before it found.
C16_Witness ==
    /\ pc = "snapshot"
    /\ iterations = MaxCounted
    /\ quantity = start
    /\ quantity = <<FromNat(49), FromNat(2), FromNat(950)>>
    /\ simulated[1] = simulated[2]
    /\ last.to_move = 0

\* A behaviour attached anywhere targets bucket b.
Targeted(b) ==
    \E s \in Ids : \E j \in 1..Len(behaviours[s]) : behaviours[s][j].target = b

\* C17 (monotonicity by role): an update never leaves less in a bucket that
\* has no behaviours, nor more in a bucket that no behaviour targets.
C17_Monotonic ==
    AfterUpdate =>
        \A b \in Ids :
            /\ behaviours[b] = <<>> => U64LessEq(last.before[b], quantity[b])
            /\ ~Targeted(b) => U64LessEq(quantity[b], last.before[b])

\* The bucket states and the behaviours with a borrow active.
ActiveStates == {b \in Ids : borrow.state[b] # 0}

ActiveCells ==
    UNION {{<<b, j>> : j \in {i \in 1..Len(behaviours[b]) : borrow.cell[b][i] # 0}} :
               b \in Ids}

\* C18 (exclusive access): no borrow is ever refused; at most one borrow of a
\* bucket's state is active, held once; none is active between the accesses of
\* an update nor while the list's copy is walked; at most one behaviour is
\* borrowed; and between sweeps every RefCell is free.
C18_ExclusiveAccess ==
    /\ pc # "borrow_panic"
    /\ Cardinality(ActiveStates) <= 1
    /\ \A b \in Ids : borrow.state[b] \in {-1, 0, 1}
    /\ pc \in {"iterate", "get", "inc", "dec", "return"} => ActiveStates = {}
    /\ Cardinality(ActiveCells) <= 1
    /\ pc \in {"snapshot", "sweep", "sleep"} => borrow = NoBorrow

\* The first bucket, added twice and targeting itself, advanced for the second
\* time and about to be decreased under its mutable borrow.
C18_Witness ==
    /\ pc = "subtracting"
    /\ buckets = <<1, 1, 2>>
    /\ idx = 2
    /\ Running.target = Current
    /\ frame.to_move > 0
    /\ borrow.state[Current] = -1
    /\ borrow.cell[Current][k] = -1

====
